---- MODULE Spec2Model ----
(***************************************************************************)
(* useAJVForm: a React hook that keeps per-field {value, error} state for  *)
(* a form, validates it with a compiled Ajv validator, and re-validates    *)
(* the last edited field after a debounce delay.                           *)
(*                                                                         *)
(* The hook is a function that React calls on every render.  The handlers  *)
(* it returns (set, onBlur, validate, reset, setErrors) are closures over  *)
(* the values of that render: `state`, `isDirty` and `editCounter` read    *)
(* inside a handler are the rendered ones, while a functional update       *)
(* setState(prev => ...) is applied to the latest state.  The variable     *)
(* `rendered` holds the closure values; Spec re-renders after every        *)
(* operation: updates made outside a React batch are flushed at once, as   *)
(* in the repository's tests.  SpecBatched adds the React batch: handlers  *)
(* called from one event handler run against the same render, and React    *)
(* re-renders once when the batch ends.                                    *)
(***************************************************************************)
EXTENDS Integers, Sequences, FiniteSets, TLC

VARIABLES
  state,            \* useState<IState<T>>: field name -> [value, error]
  initialStateRef,  \* useRef(getInitial(initial)).current
  currentField,     \* useState: NoField or [name, editId]
  editCounter,      \* useState(0)
  debouncedField,   \* useDebounce(currentField, delay): the debounced copy
  timers,           \* pending setTimeout handles of useDebounce, by value
  rendered,         \* closure of the latest render: [state, editCounter]
  effects,          \* effect dependencies changed since the latest render
  pending,          \* operations called in the open React batch
  shared,           \* state is the object initialStateRef.current itself
  status,           \* "mounted", or "crashed" once a render or effect threw
  options,          \* the hook's options: [shouldDebounceAndValidate, ...]
                    \* and, as `conditional`, which schema it was given
  result            \* the last operation and what it returned to the caller

vars == <<state, initialStateRef, currentField, editCounter, debouncedField,
          timers, rendered, effects, pending, shared, status, options,
          result>>

----------------------------------------------------------------------------
(* Bounds of the model *)

\* set() is not called once editCounter has reached MaxEdits
MaxEdits == 2
\* a patch given to set() names at most MaxPatch fields
MaxPatch == 2
\* an error list given to setErrors() holds at most MaxErrors records
MaxErrors == 2
\* an event handler calls at most MaxBatch operations before React renders
MaxBatch == 2

\* a schema given to the analyzer has at most MaxClauses allOf entries
MaxClauses == 2

----------------------------------------------------------------------------
(* Values, field names and the schema of the form under test *)

Null == "<null>"
Undefined == "<undefined>"
Strings == {"", "Hello"}

\* String.prototype.length of the strings of the model
StrLen(v) == CASE v = "" -> 0 [] v = "Hello" -> 5

\* JavaScript falsiness of the values of the model (!x)
Falsy(x) == x \in {Null, Undefined, ""}

\* the keys of `initial`, in declaration order, and the key a patch may add
InitialFields == <<"title", "description">>
ExtraFields == <<"id">>
FieldOrder == InitialFields \o ExtraFields
FieldNames == {FieldOrder[i] : i \in DOMAIN FieldOrder}

\* the keys of `initial` of the conditional form, in declaration order
ConditionalFields == <<"locationType", "location", "eventUrl">>

\* the schema: both fields required strings, title of at least 3
\* characters, description of at least 1
Schema ==
  [required |-> <<"title", "description">>,
   order |-> <<"title", "description">>,
   properties |-> ("title" :> [minLength |-> 3] @@
                   "description" :> [minLength |-> 1])]

\* array.includes(x)
Includes(array, x) == \E i \in DOMAIN array : array[i] = x

\* what the then.properties of the conditional tests say of a dependent
\* field: location {minLength: 1}, eventUrl {format: 'uri'}
ThenProperty(field) ==
  IF field = "location"
    THEN [keyword |-> "minLength", limit |-> 1, format |-> ""]
  ELSE [keyword |-> "format", limit |-> 0, format |-> "uri"]

\* the schema of the conditional tests: location is required when
\* locationType is 'onsite', eventUrl when 'remote', both when 'hybrid'
Clause(field, const, required) ==
  [if |-> [properties |-> (field :> [const |-> const])],
   then |-> [required |-> required,
             properties |-> [f \in {required[i] : i \in DOMAIN required} |->
                               ThenProperty(f)]]]

ConditionalSchema ==
  [required |-> <<"locationType">>,
   properties |-> ("locationType" :>
                     [enum |-> <<"hybrid", "onsite", "remote">>]),
   allOf |-> << Clause("locationType", "onsite", <<"location">>),
                Clause("locationType", "remote", <<"eventUrl">>),
                Clause("locationType", "hybrid",
                       <<"location", "eventUrl">>) >>]

\* the initial values a form is constructed with
InitialChoices ==
  { ("title" :> "" @@ "description" :> ""),
    ("title" :> Null @@ "description" :> "Hello") }

----------------------------------------------------------------------------
(* utils: getValue, getInitial *)

getValue(value) == IF value = Null \/ value = Undefined THEN "" ELSE value

getInitial(initial) ==
  [key \in DOMAIN initial |-> [value |-> initial[key], error |-> ""]]

\* Object.keys of a state object: the initial keys first, added keys after
Keys(s) ==
  SelectSeq(FieldOrder \o ConditionalFields, LAMBDA f : f \in DOMAIN s)

----------------------------------------------------------------------------
(* The Validator: ajv.compile(schema), with allErrors and coerceTypes.     *)
(* An ErrorObject is [instancePath, schemaPath, keyword, params, message]; *)
(* a JSON pointer is held as the sequence of its segments, so "" is <<>>   *)
(* and "/title" is <<"title">>.                                            *)

NoParams ==
  [limit |-> 0, missingProperty |-> "", allowedValues |-> <<>>,
   format |-> "", type |-> "", failingKeyword |-> ""]

RequiredError(missing) ==
  [instancePath |-> <<>>,
   schemaPath |-> <<"required">>,
   keyword |-> "required",
   params |-> [NoParams EXCEPT !.missingProperty = missing],
   message |-> "must have required property"]

MinLengthError(field, limit) ==
  [instancePath |-> <<field>>,
   schemaPath |-> <<"properties", field, "minLength">>,
   keyword |-> "minLength",
   params |-> [NoParams EXCEPT !.limit = limit],
   message |-> "must NOT have fewer characters"]

\* coerceTypes: a null given for a string property is validated as ""
CoerceString(v) == IF v = Null THEN "" ELSE v

\* the format 'uri' of ajv-formats on the strings of the model
IsUri(v) == v = "https://example.com"

\* the errors of allOf/<i>/then: required before properties
ThenRequiredError(i, missing) ==
  [RequiredError(missing) EXCEPT
     !.schemaPath = <<"allOf", ToString(i - 1), "then", "required">>]

ThenPropertyError(i, field) ==
  [instancePath |-> <<field>>,
   schemaPath |-> <<"allOf", ToString(i - 1), "then", "properties", field,
                    ThenProperty(field).keyword>>,
   keyword |-> ThenProperty(field).keyword,
   params |-> [NoParams EXCEPT !.limit = ThenProperty(field).limit,
                               !.format = ThenProperty(field).format],
   message |-> "must match the then schema's property"]

\* the error of the keyword `if` itself: its `then` schema failed
IfError(i) ==
  [instancePath |-> <<>>,
   schemaPath |-> <<"allOf", ToString(i - 1), "if">>,
   keyword |-> "if",
   params |-> [NoParams EXCEPT !.failingKeyword = "then"],
   message |-> "must match \"then\" schema"]

EnumError(field, allowedValues) ==
  [instancePath |-> <<field>>,
   schemaPath |-> <<"properties", field, "enum">>,
   keyword |-> "enum",
   params |-> [NoParams EXCEPT !.allowedValues = allowedValues],
   message |-> "must be equal to one of the allowed values"]

\* a value of a dependent field breaks what then.properties says of it
BreaksThenProperty(field, v) ==
  IF ThenProperty(field).keyword = "minLength"
    THEN StrLen(CoerceString(v)) < ThenProperty(field).limit
  ELSE ~IsUri(CoerceString(v))

\* the `if` of a clause holds for data: a property that data lacks is not
\* constrained by if.properties
IfMatches(clause, data) ==
  \A c \in DOMAIN clause.if.properties :
    c \in DOMAIN data => data[c] = clause.if.properties[c].const

\* the errors of the clause allOf[i]: those of `then` when `if` holds,
\* followed by the error of `if`
ClauseErrors(i, data) ==
  LET clause == ConditionalSchema.allOf[i]
      missing == SelectSeq(clause.then.required,
                           LAMBDA f : f \notin DOMAIN data)
      broken == SelectSeq(clause.then.required,
                  LAMBDA f : /\ f \in DOMAIN data
                             /\ BreaksThenProperty(f, data[f]))
      thenErrors == [k \in 1..Len(missing) |->
                       ThenRequiredError(i, missing[k])]
                    \o [k \in 1..Len(broken) |->
                          ThenPropertyError(i, broken[k])]
  IN IF IfMatches(clause, data) /\ thenErrors # <<>>
       THEN thenErrors \o <<IfError(i)>>
     ELSE <<>>

RECURSIVE AllOfErrors(_, _)
AllOfErrors(n, data) ==
  IF n = 0 THEN <<>> ELSE AllOfErrors(n - 1, data) \o ClauseErrors(n, data)

\* the Validator compiled from the conditional schema (allErrors): the
\* errors of allOf, then those of required and of properties
AJVValidateConditional(data) ==
  LET missing == SelectSeq(ConditionalSchema.required,
                           LAMBDA f : f \notin DOMAIN data)
      allowed == ConditionalSchema.properties["locationType"].enum
  IN AllOfErrors(Len(ConditionalSchema.allOf), data)
     \o [k \in 1..Len(missing) |-> RequiredError(missing[k])]
     \o (IF /\ "locationType" \in DOMAIN data
            /\ ~Includes(allowed, CoerceString(data["locationType"]))
           THEN <<EnumError("locationType", allowed)>>
         ELSE <<>>)

\* AJVValidate(data); AJVValidate.errors.  The errors of `required` come
\* first (one per missing property, with an empty instancePath), then the
\* errors of the properties present in data.  <<>> means valid.
AJVValidate(data) ==
  IF options.conditional THEN AJVValidateConditional(data) ELSE
  LET missing == SelectSeq(Schema.required, LAMBDA f : f \notin DOMAIN data)
      short == SelectSeq(Schema.order,
                 LAMBDA f : /\ f \in DOMAIN data
                            /\ data[f] # Undefined
                            /\ StrLen(CoerceString(data[f]))
                                 < Schema.properties[f].minLength)
  IN [i \in 1..Len(missing) |-> RequiredError(missing[i])]
     \o [i \in 1..Len(short) |->
           MinLengthError(short[i], Schema.properties[short[i]].minLength)]

\* a keyword of options.customKeywords whose validation function throws
\* makes every call of the compiled Validator throw
AJVThrows == options.keywordThrows

----------------------------------------------------------------------------
(* The Error Resolver: utils getFieldName, getErrorMessage, getErrors *)

RECURSIVE JoinPath(_)
JoinPath(segments) ==
  IF Len(segments) = 1 THEN segments[1]
  ELSE segments[1] \o "/" \o JoinPath(Tail(segments))

\* instancePath.slice(1), or null for an empty instancePath
getFieldName(instancePath) ==
  IF instancePath = <<>> THEN Null ELSE JoinPath(instancePath)

\* constants.ts: the default message templates, applied to error.params
DefaultKeywords ==
  {"required", "minLength", "maxLength", "pattern", "minimum", "maximum",
   "enum", "type", "format"}

\* array.join(', ')
RECURSIVE JoinComma(_)
JoinComma(array) ==
  IF Len(array) = 0 THEN ""
  ELSE IF Len(array) = 1 THEN array[1]
  ELSE array[1] \o ", " \o JoinComma(Tail(array))


\* templates whose minLength has no special case for a limit of 1
defaultAJVMessagesNumeric(keyword, params) ==
  CASE keyword = "required" -> params.missingProperty \o " is required."
    [] keyword = "minLength" ->
         "Should be at least " \o ToString(params.limit)
           \o " characters long."
    [] keyword = "maxLength" ->
         "Should not exceed " \o ToString(params.limit) \o " characters."
    [] keyword = "pattern" -> "Invalid format."
    [] keyword = "minimum" ->
         "Should be greater than or equal to " \o ToString(params.limit)
           \o "."
    [] keyword = "maximum" ->
         "Should be less than or equal to " \o ToString(params.limit) \o "."
    [] keyword = "enum" ->
         JoinComma(params.allowedValues) \o " are the only allowed values."
    [] keyword = "type" -> "Should be of type " \o params.type \o "."
    [] keyword = "format" -> "Should be in " \o params.format \o " format."

defaultAJVMessages(keyword, params) ==
  CASE keyword = "required" -> params.missingProperty \o " is required."
    [] keyword = "minLength" ->
         IF params.limit = 1 THEN "This field is required."
         ELSE "Should be at least " \o ToString(params.limit)
                \o " characters long."
    [] keyword = "maxLength" ->
         "Should not exceed " \o ToString(params.limit) \o " characters."
    [] keyword = "pattern" -> "Invalid format."
    [] keyword = "minimum" ->
         "Should be greater than or equal to " \o ToString(params.limit)
           \o "."
    [] keyword = "maximum" ->
         "Should be less than or equal to " \o ToString(params.limit) \o "."
    [] keyword = "enum" ->
         JoinComma(params.allowedValues) \o " are the only allowed values."
    [] keyword = "type" -> "Should be of type " \o params.type \o "."
    [] keyword = "format" -> "Should be in " \o params.format \o " format."

\* a caller's template, as in the tests: () => 'Monkey message'
UserMessage == "Monkey message"

\* a getErrorMessage that does not look at userDefinedMessages
getErrorMessageDefaultOnly(error, userDefinedMessages) ==
  IF error.keyword \in DefaultKeywords
    THEN defaultAJVMessages(error.keyword, error.params)
  ELSE IF ~Falsy(error.message) THEN error.message
  ELSE "Unknown validation error"

\* userDefinedMessages is the set of keywords the caller gave a template for
getErrorMessage(error, userDefinedMessages) ==
  IF error.keyword \in userDefinedMessages THEN UserMessage
  ELSE IF error.keyword \in DefaultKeywords
    THEN defaultAJVMessages(error.keyword, error.params)
  ELSE IF ~Falsy(error.message) THEN error.message
  ELSE "Unknown validation error"

\* current.schemaPath.includes('/if')
includesIf(schemaPath) == \E i \in DOMAIN schemaPath : schemaPath[i] = "if"

\* The reduce of getErrors from the i-th error on.  The hook passes no
\* schema to getErrors, so an error without instancePath is never resolved
\* through the schema: it is skipped.
RECURSIVE getErrorsFrom(_, _, _, _, _)
getErrorsFrom(ajvErrors, i, acc, seenFields, userDefinedMessages) ==
  IF i > Len(ajvErrors) THEN acc
  ELSE
    LET current == ajvErrors[i]
        fieldName == getFieldName(current.instancePath)
    IN IF Falsy(fieldName)
         THEN getErrorsFrom(ajvErrors, i + 1, acc, seenFields,
                            userDefinedMessages)
       ELSE IF fieldName \in seenFields /\ includesIf(current.schemaPath)
         THEN getErrorsFrom(ajvErrors, i + 1, acc, seenFields,
                            userDefinedMessages)
       ELSE getErrorsFrom(ajvErrors, i + 1,
              (fieldName :> getErrorMessage(current, userDefinedMessages))
                @@ acc,
              seenFields \cup {fieldName}, userDefinedMessages)

\* the empty object {}
EmptyObject == [f \in {} |-> ""]

getErrors(ajvErrors, userDefinedMessages) ==
  getErrorsFrom(ajvErrors, 1, EmptyObject, {}, userDefinedMessages)

\* A schema as resolveConditionalField reads it: allOf is a list of
\* clauses, each with or without `if` and `then`; a `then` has or lacks a
\* required list and properties, whose keys are kept in declared order.
Then(hasRequired, required, hasProperties, propertyKeys) ==
  [hasRequired |-> hasRequired, required |-> required,
   hasProperties |-> hasProperties, propertyKeys |-> propertyKeys]

NoThen == Then(FALSE, <<>>, FALSE, <<>>)

\* getErrors called without its schema argument
NoSchema == [given |-> FALSE, allOf |-> <<>>]

ResolverSchema ==
  [given |-> TRUE,
   allOf |-> <<
     [hasIf |-> TRUE, hasThen |-> TRUE,
      then |-> Then(TRUE, <<"location", "eventUrl">>,
                    TRUE, <<"eventUrl", "location">>)],
     [hasIf |-> TRUE, hasThen |-> TRUE,
      then |-> Then(TRUE, <<>>, TRUE, <<"eventUrl", "location">>)],
     [hasIf |-> TRUE, hasThen |-> TRUE,
      then |-> Then(FALSE, <<>>, TRUE, <<"location">>)],
     [hasIf |-> TRUE, hasThen |-> TRUE, then |-> NoThen],
     [hasIf |-> TRUE, hasThen |-> FALSE, then |-> NoThen] >>]

\* parseInt of a path segment made of digits, or -1 for another segment
ParseIndex(segment) ==
  CASE segment = "0" -> 0 [] segment = "1" -> 1 [] segment = "2" -> 2
    [] segment = "3" -> 3 [] segment = "4" -> 4 [] segment = "5" -> 5
    [] OTHER -> 0 - 1

\* the loop over pathParts: every key of the path leads to a truthy node
\* of the schema (the `if` of a clause is {properties: {locationType:
\* {const}}})
Traverses(pathParts, schema) ==
  /\ Len(pathParts) \in 1..6
  /\ pathParts[1] = "allOf"
  /\ Len(pathParts) >= 2 =>
       /\ ParseIndex(pathParts[2]) >= 0
       /\ ParseIndex(pathParts[2]) < Len(schema.allOf)
  /\ Len(pathParts) >= 3 =>
       /\ pathParts[3] = "if"
       /\ schema.allOf[ParseIndex(pathParts[2]) + 1].hasIf
  /\ Len(pathParts) >= 4 => pathParts[4] = "properties"
  /\ Len(pathParts) >= 5 => pathParts[5] = "locationType"
  /\ Len(pathParts) >= 6 => pathParts[6] = "const"

\* /allOf\/(\d+)\/if/.exec(schemaPath): the positions of a match
IfMatchesAt(schemaPath) ==
  { i \in 1..(Len(schemaPath) - 2) :
      /\ schemaPath[i] = "allOf"
      /\ ParseIndex(schemaPath[i + 1]) >= 0
      /\ schemaPath[i + 2] = "if" }

\* a resolveConditionalField that looks at then.properties before
\* then.required
resolveConditionalFieldPropertiesFirst(schemaPath, schema) ==
  IF schemaPath = <<>> \/ ~schema.given THEN Null
  ELSE IF ~Traverses(schemaPath, schema) THEN Null
  ELSE IF IfMatchesAt(schemaPath) = {} THEN Null
  ELSE
    LET first == CHOOSE i \in IfMatchesAt(schemaPath) :
                   \A j \in IfMatchesAt(schemaPath) : i <= j
        index == ParseIndex(schemaPath[first + 1])
    IN IF index >= Len(schema.allOf) THEN Null
       ELSE
         LET allOfBlock == schema.allOf[index + 1]
         IN IF ~allOfBlock.hasThen THEN Null
            ELSE IF /\ allOfBlock.then.hasProperties
                    /\ Len(allOfBlock.then.propertyKeys) > 0
              THEN allOfBlock.then.propertyKeys[1]
            ELSE IF /\ allOfBlock.then.hasRequired
                    /\ Len(allOfBlock.then.required) > 0
              THEN allOfBlock.then.required[1]
            ELSE Null

resolveConditionalField(schemaPath, schema) ==
  IF schemaPath = <<>> \/ ~schema.given THEN Null
  ELSE IF ~Traverses(schemaPath, schema) THEN Null
  ELSE IF IfMatchesAt(schemaPath) = {} THEN Null
  ELSE
    LET first == CHOOSE i \in IfMatchesAt(schemaPath) :
                   \A j \in IfMatchesAt(schemaPath) : i <= j
        index == ParseIndex(schemaPath[first + 1])
    IN IF index >= Len(schema.allOf) THEN Null
       ELSE
         LET allOfBlock == schema.allOf[index + 1]
         IN IF ~allOfBlock.hasThen THEN Null
            ELSE IF /\ allOfBlock.then.hasRequired
                    /\ Len(allOfBlock.then.required) > 0
              THEN allOfBlock.then.required[1]
            ELSE IF /\ allOfBlock.then.hasProperties
                    /\ Len(allOfBlock.then.propertyKeys) > 0
              THEN allOfBlock.then.propertyKeys[1]
            ELSE Null

\* a getErrors in which the first message a field receives is kept
RECURSIVE getErrorsFirstWinsFrom(_, _, _, _, _, _)
getErrorsFirstWinsFrom(ajvErrors, i, acc, seenFields, userDefinedMessages, schema) ==
  IF i > Len(ajvErrors) THEN acc
  ELSE
    LET current == ajvErrors[i]
        direct == getFieldName(current.instancePath)
        fieldName ==
          IF Falsy(direct) /\ schema.given
               /\ includesIf(current.schemaPath)
            THEN resolveConditionalField(current.schemaPath, schema)
          ELSE direct
    IN IF Falsy(fieldName) \/ fieldName \in seenFields
         THEN getErrorsFirstWinsFrom(ajvErrors, i + 1, acc, seenFields,
                                     userDefinedMessages, schema)
       ELSE getErrorsFirstWinsFrom(ajvErrors, i + 1,
              (fieldName :> getErrorMessage(current, userDefinedMessages))
                @@ acc,
              seenFields \cup {fieldName}, userDefinedMessages, schema)

\* The reduce of getErrors called with a schema, from the i-th error on
RECURSIVE getErrorsSchemaFrom(_, _, _, _, _, _)
getErrorsSchemaFrom(ajvErrors, i, acc, seenFields, userDefinedMessages, schema) ==
  IF i > Len(ajvErrors) THEN acc
  ELSE
    LET current == ajvErrors[i]
        direct == getFieldName(current.instancePath)
        fieldName ==
          IF Falsy(direct) /\ schema.given
               /\ includesIf(current.schemaPath)
            THEN resolveConditionalField(current.schemaPath, schema)
          ELSE direct
    IN IF Falsy(fieldName)
         THEN getErrorsSchemaFrom(ajvErrors, i + 1, acc, seenFields,
                                  userDefinedMessages, schema)
       ELSE IF fieldName \in seenFields /\ includesIf(current.schemaPath)
         THEN getErrorsSchemaFrom(ajvErrors, i + 1, acc, seenFields,
                                  userDefinedMessages, schema)
       ELSE getErrorsSchemaFrom(ajvErrors, i + 1,
              (fieldName :> getErrorMessage(current, userDefinedMessages))
                @@ acc,
              seenFields \cup {fieldName}, userDefinedMessages, schema)

getErrorsFirstWins(ajvErrors, userDefinedMessages, schema) ==
  getErrorsFirstWinsFrom(ajvErrors, 1, EmptyObject, {}, userDefinedMessages,
                         schema)

getErrorsWithSchema(ajvErrors, userDefinedMessages, schema) ==
  getErrorsSchemaFrom(ajvErrors, 1, EmptyObject, {}, userDefinedMessages,
                      schema)

\* errors[fieldName] || ''
ErrorOf(errors, fieldName) ==
  IF fieldName \in DOMAIN errors /\ ~Falsy(errors[fieldName])
    THEN errors[fieldName] ELSE ""

----------------------------------------------------------------------------
(* The hook.  Its operations are written on a record h of the hook's       *)
(* React state, so that an operation and the render that follows it make   *)
(* one step.                                                               *)

NoField == [name |-> Null, editId |-> 0 - 1]
NoData == EmptyObject

Hook ==
  [state |-> state, currentField |-> currentField,
   editCounter |-> editCounter, debouncedField |-> debouncedField,
   timers |-> timers, rendered |-> rendered, effects |-> effects,
   pending |-> pending, initialStateRef |-> initialStateRef,
   shared |-> shared, status |-> status, result |-> result]

\* what an operation reports to its caller
\* (arg: the patch of a set, the field of an onBlur, the list of a setErrors)
Returned(op, arg, threw, isValid, hasData, data) ==
  [op |-> op, arg |-> arg, threw |-> threw, isValid |-> isValid,
   hasData |-> hasData, data |-> data]

Void(op, arg) == Returned(op, arg, FALSE, FALSE, FALSE, NoData)
Thrown(op, arg) == Returned(op, arg, TRUE, FALSE, FALSE, NoData)

\* the first key for which the callback of `some` does not return false,
\* from key i on: "true", "false", or "throws" when initialState has no
\* entry for a key that is reached (initialState[key].value is a TypeError)
RECURSIVE someDiffers(_, _, _, _)
someDiffers(keys, i, currentState, initialState) ==
  IF i > Len(keys) THEN "false"
  ELSE IF keys[i] \notin DOMAIN initialState THEN "throws"
  ELSE IF currentState[keys[i]].value # initialState[keys[i]].value
    THEN "true"
  ELSE someDiffers(keys, i + 1, currentState, initialState)

isFormDirty(currentState, initialState) ==
  someDiffers(Keys(currentState), 1, currentState, initialState)

\* an isFormValid that runs the Validator on the current values
isFormValidFresh(currentState) ==
  AJVValidate([fieldName \in DOMAIN currentState |->
                 getValue(currentState[fieldName].value)]) = <<>>

isFormValid(currentState) ==
  ~ \E key \in DOMAIN currentState : currentState[key].error # ""

\* the isDirty and isValid of the latest render (useMemo on [state])
isDirty == isFormDirty(rendered.state, initialStateRef) = "true"
isValid == isFormValid(rendered.state)

\* the `data` accessor of the latest render
dataOf(currentState) ==
  [fieldName \in DOMAIN currentState |->
     getValue(currentState[fieldName].value)]

\* a reset that blanks every field instead of restoring the snapshot
resetFormBlank(h) ==
  [h EXCEPT !.shared = FALSE, !.state = [name \in DOMAIN h.rendered.state |->
                         [value |-> "", error |-> ""]],
            !.result = Void("reset", <<>>)]

resetForm(h) ==
  [h EXCEPT !.state = h.initialStateRef, !.shared = TRUE,
            !.result = Void("reset", <<>>)]

\* ...prevState[fieldName] of a field prevState does not have spreads nothing
Entry(s, fieldName) ==
  IF fieldName \in DOMAIN s THEN s[fieldName]
  ELSE [value |-> Undefined, error |-> Undefined]

\* a validateField that writes the field's message whether or not the form
\* is dirty
validateFieldUngated(h, fieldName, op) ==
  IF fieldName \notin DOMAIN h.rendered.state \/ AJVThrows
    THEN [h EXCEPT !.result = Thrown(op, <<fieldName>>)]
  ELSE
    LET errors == AJVValidate(
                    fieldName :> h.rendered.state[fieldName].value)
        fieldErrors == getErrors(errors, options.userDefinedMessages)
    IN [h EXCEPT
          !.shared = FALSE, !.state = (fieldName :>
                       [Entry(h.state, fieldName) EXCEPT
                          !.error = ErrorOf(fieldErrors, fieldName)])
                    @@ h.state,
          !.result = Void(op, <<fieldName>>)]

\* a validateField that validates the whole form and writes every message
validateFieldWholeForm(h, fieldName, op) ==
  IF fieldName \notin DOMAIN h.rendered.state \/ AJVThrows
    THEN [h EXCEPT !.result = Thrown(op, <<fieldName>>)]
  ELSE
    LET errors == AJVValidate(dataOf(h.rendered.state))
        fieldErrors == getErrors(errors, options.userDefinedMessages)
        dirty == isFormDirty(h.rendered.state, initialStateRef) = "true"
    IN [h EXCEPT
          !.shared = FALSE, !.state = [name \in DOMAIN h.state |->
                       [h.state[name] EXCEPT
                          !.error = IF dirty THEN ErrorOf(fieldErrors, name)
                                    ELSE ""]],
          !.result = Void(op, <<fieldName>>)]

\* a validateField that closes over the first render: it validates the
\* value the field had at mount
validateFieldStale(h, fieldName, op) ==
  IF fieldName \notin DOMAIN h.rendered.state \/ AJVThrows
    THEN [h EXCEPT !.result = Thrown(op, <<fieldName>>)]
  ELSE
    LET errors == AJVValidate(
                    fieldName :> Entry(initialStateRef, fieldName).value)
        fieldErrors == getErrors(errors, options.userDefinedMessages)
        dirty == isFormDirty(h.rendered.state, initialStateRef) = "true"
        error == IF dirty THEN ErrorOf(fieldErrors, fieldName) ELSE ""
    IN [h EXCEPT
          !.shared = FALSE, !.state = (fieldName :>
                       [Entry(h.state, fieldName) EXCEPT !.error = error])
                    @@ h.state,
          !.result = Void(op, <<fieldName>>)]

\* validateField reads state and isDirty of its render and updates the
\* latest state; op names the caller for the result
validateField(h, fieldName, op) ==
  IF fieldName \notin DOMAIN h.rendered.state \/ AJVThrows
    THEN [h EXCEPT !.result = Thrown(op, <<fieldName>>)]
  ELSE
    LET errors == AJVValidate(
                    fieldName :> h.rendered.state[fieldName].value)
        fieldErrors == IF errors = <<>> THEN EmptyObject
                       ELSE getErrors(errors, options.userDefinedMessages)
        dirty == isFormDirty(h.rendered.state, initialStateRef) = "true"
        error == IF dirty THEN ErrorOf(fieldErrors, fieldName) ELSE ""
    IN [h EXCEPT
          !.shared = FALSE, !.state = (fieldName :>
                       [Entry(h.state, fieldName) EXCEPT !.error = error])
                    @@ h.state,
          !.result = Void(op, <<fieldName>>)]

handleBlur(h, fieldName) == validateField(h, fieldName, "onBlur")

\* a patch applied as an earlier revision of the hook did: the error of a
\* patched field is cleared
RECURSIVE patchedClearingError(_, _, _)
patchedClearingError(current, form, n) ==
  IF n = 0 THEN current
  ELSE (form[n][1] :> [value |-> getValue(form[n][2]), error |-> ""])
       @@ patchedClearingError(current, form, n - 1)

\* newState after the first n keys of the patch; a patch is the sequence
\* of its <<key, value>> entries, in Object.keys order
RECURSIVE patched(_, _, _)
patched(current, form, n) ==
  IF n = 0 THEN current
  ELSE
    LET newState == patched(current, form, n - 1)
        name == form[n][1]
        old == Entry(newState, name)
    IN (name :> [value |-> getValue(form[n][2]),
                 error |-> IF Falsy(old.error) THEN "" ELSE old.error])
       @@ newState

\* Object.keys(form)
Object_keys(form) == [i \in DOMAIN form |-> form[i][1]]

\* a setFormState that names the last key of the patch as current field
setFormStateLastKey(h, form) ==
  [h EXCEPT
     !.shared = FALSE, !.state = patched(h.state, form, Len(form)),
     !.currentField = [name |-> Object_keys(form)[Len(form)],
                       editId |-> h.rendered.editCounter],
     !.editCounter = h.rendered.editCounter + 1,
     !.effects = h.effects \cup {"currentField"},
     !.result = Void("set", form)]

\* a setFormState whose updater writes into `current` instead of a copy:
\* when `current` is initialStateRef.current, the snapshot is written too
setFormStateInPlace(h, form) ==
  [h EXCEPT
     !.state = patched(h.state, form, Len(form)),
     !.initialStateRef = IF h.shared THEN patched(h.state, form, Len(form))
                         ELSE h.initialStateRef,
     !.currentField = [name |-> Object_keys(form)[1],
                       editId |-> h.rendered.editCounter],
     !.editCounter = h.rendered.editCounter + 1,
     !.effects = h.effects \cup {"currentField"},
     !.result = Void("set", form)]

\* setFormState: the updater runs on the latest state; editCounter is the
\* one of the render the handler closes over
setFormState(h, form) ==
  [h EXCEPT
     !.shared = FALSE, !.state = patched(h.state, form, Len(form)),
     !.currentField = [name |-> Object_keys(form)[1],
                       editId |-> h.rendered.editCounter],
     !.editCounter = h.rendered.editCounter + 1,
     !.effects = h.effects \cup {"currentField"},
     !.result = Void("set", form)]

\* _setErrors(errors): the rendered state with the errors written over it;
\* state[key].value is a TypeError for a key the state does not have
SetErrorsThrows(h, errors) ==
  \E fieldName \in DOMAIN errors : fieldName \notin DOMAIN h.rendered.state

\* a _setErrors that builds the new state from the named fields alone
_setErrorsNamedOnly(h, errors) ==
  [fieldName \in DOMAIN errors |->
     [value |-> getValue(h.rendered.state[fieldName].value),
      error |-> ErrorOf(errors, fieldName)]]

_setErrors(h, errors) ==
  [fieldName \in DOMAIN h.rendered.state |->
     IF fieldName \in DOMAIN errors
       THEN [value |-> getValue(h.rendered.state[fieldName].value),
             error |-> ErrorOf(errors, fieldName)]
       ELSE h.rendered.state[fieldName]]

\* a validateForm without its try/catch
validateFormUncaught(h) ==
  LET data == dataOf(h.rendered.state)
      ajvErrors == AJVValidate(data)
      errors == getErrors(ajvErrors, options.userDefinedMessages)
      invalid == Returned("validate", <<>>, FALSE, FALSE, FALSE, NoData)
  IN IF AJVThrows
       THEN [h EXCEPT !.result = Thrown("validate", <<>>)]
     ELSE IF ajvErrors # <<>>
       THEN [h EXCEPT
               !.shared = FALSE, !.state = _setErrors(h,
                 [fieldName \in DOMAIN errors |->
                    getValue(errors[fieldName])]),
               !.result = invalid]
     ELSE IF ~isFormValid(h.rendered.state)
       THEN [h EXCEPT !.result = invalid]
     ELSE [h EXCEPT !.result =
             Returned("validate", <<>>, FALSE, TRUE, TRUE, data)]

\* a validateForm that, when the form already carries an error, clears the
\* stored errors instead of running the Validator
validateFormClearingStale(h) ==
  LET data == dataOf(h.rendered.state)
      ajvErrors == AJVValidate(data)
      errors == getErrors(ajvErrors, options.userDefinedMessages)
      invalid == Returned("validate", <<>>, FALSE, FALSE, FALSE, NoData)
  IN IF AJVThrows
       THEN [h EXCEPT !.result = invalid]
     ELSE IF ~isFormValid(h.rendered.state)
       THEN [h EXCEPT
               !.shared = FALSE,
               !.state = [name \in DOMAIN h.rendered.state |->
                            [h.rendered.state[name] EXCEPT !.error = ""]],
               !.result = invalid]
     ELSE IF ajvErrors # <<>>
       THEN IF SetErrorsThrows(h, errors)
              THEN [h EXCEPT !.result = invalid]
            ELSE [h EXCEPT
                    !.shared = FALSE,
                    !.state = _setErrors(h,
                      [fieldName \in DOMAIN errors |->
                         getValue(errors[fieldName])]),
                    !.result = invalid]
     ELSE [h EXCEPT !.result =
             Returned("validate", <<>>, FALSE, TRUE, TRUE, data)]

\* validateForm: an exception thrown inside the try block (by the
\* Validator, or by _setErrors before setState is called) is caught
validateForm(h) ==
  LET data == dataOf(h.rendered.state)
      ajvErrors == AJVValidate(data)
      errors == getErrors(ajvErrors, options.userDefinedMessages)
      invalid == Returned("validate", <<>>, FALSE, FALSE, FALSE, NoData)
  IN IF AJVThrows
       THEN [h EXCEPT !.result = invalid]   \* caught
     ELSE IF ajvErrors # <<>>
       THEN IF SetErrorsThrows(h, errors)
              THEN [h EXCEPT !.result = invalid]   \* caught
            ELSE [h EXCEPT
                    !.shared = FALSE, !.state = _setErrors(h,
                      [fieldName \in DOMAIN errors |->
                         getValue(errors[fieldName])]),
                    !.result = invalid]
     ELSE IF ~isFormValid(h.rendered.state)
       THEN [h EXCEPT !.result = invalid]
     ELSE [h EXCEPT !.result =
             Returned("validate", <<>>, FALSE, TRUE, TRUE, data)]

setErrors(h, errors) ==
  LET resolved == getErrors(errors, options.userDefinedMessages)
  IN IF SetErrorsThrows(h, resolved)
       THEN [h EXCEPT !.result = Thrown("setErrors", errors)]
     ELSE [h EXCEPT !.shared = FALSE, !.state = _setErrors(h, resolved),
                    !.result = Void("setErrors", errors)]

----------------------------------------------------------------------------
(* useDebounce(value, delay): a trailing-edge debounce.  When `value`      *)
(* changes, its effect clears the timer it armed before and arms one for   *)
(* the new value; a timer that fires stores its value as debounced value.  *)

\* a debounce that arms a timer without clearing the one armed before
armDebounceKeeping(h) ==
  [h EXCEPT !.timers = h.timers \cup {h.currentField}]

armDebounce(h) == [h EXCEPT !.timers = {h.currentField}]

fireDebounce(h, timer) ==
  [h EXCEPT !.timers = h.timers \ {timer},
            !.debouncedField = timer,
            !.effects = h.effects \cup {"debouncedField"}]

----------------------------------------------------------------------------
(* A render and the effects that run after it *)

\* the hook function runs: isDirty is computed, the handlers close over the
\* latest state and editCounter
rerun(h) ==
  IF isFormDirty(h.state, initialStateRef) = "throws"
    THEN [h EXCEPT !.status = "crashed"]
  ELSE [h EXCEPT !.rendered = [state |-> h.state,
                               editCounter |-> h.editCounter]]

\* an effect that never validates
debouncedFieldEffectNever(h) == h

\* an effect that validates whatever shouldDebounceAndValidate says
debouncedFieldEffectAlways(h) ==
  IF h.debouncedField = NoField THEN h
  ELSE
    LET v == validateField(h, h.debouncedField.name, "effect")
    IN IF v.result.threw THEN [h EXCEPT !.status = "crashed"]
       ELSE rerun([v EXCEPT !.result = h.result])

\* useEffect(..., [debouncedField]); its setState causes one more render
debouncedFieldEffect(h) ==
  IF options.shouldDebounceAndValidate = FALSE \/ h.debouncedField = NoField
    THEN h
  ELSE
    LET v == validateField(h, h.debouncedField.name, "effect")
    IN IF v.result.threw THEN [h EXCEPT !.status = "crashed"]
       ELSE rerun([v EXCEPT !.result = h.result])

\* an errors effect that never merges the option
errorsOptionEffectNever(h, errors) == h

\* useEffect(..., [options?.errors]): runs after the render in which the
\* errors option is a new list; its setState causes one more render
errorsOptionEffect(h, errors) ==
  IF Len(errors) = 0 THEN h
  ELSE
    LET resolved == getErrors(errors, options.userDefinedMessages)
    IN IF SetErrorsThrows(h, resolved) THEN [h EXCEPT !.status = "crashed"]
       ELSE rerun([h EXCEPT !.shared = FALSE, !.state = _setErrors(h, resolved)])

render(h) ==
  LET r1 == rerun(h)
      r2 == IF "currentField" \in h.effects THEN armDebounce(r1) ELSE r1
      r3 == IF "debouncedField" \in h.effects
              THEN debouncedFieldEffect(r2) ELSE r2
  IN IF r1.status = "crashed" THEN [r1 EXCEPT !.pending = 0]
     ELSE [r3 EXCEPT !.effects = {}, !.pending = 0]

----------------------------------------------------------------------------
(* Inputs *)

PatchValues == Strings \cup {Null}

DistinctKeys(form) ==
  \A i, j \in DOMAIN form : i # j => form[i][1] # form[j][1]

\* the entries a patch may hold: a string or null for title, a string for
\* description, a non-empty string for the added field
PatchEntries ==
  { e \in FieldNames \X PatchValues :
      \/ e[1] = "title"
      \/ e[1] = "description" /\ e[2] # Null
      \/ e[2] = "Hello" }

Patches ==
  { form \in UNION { [1..n -> PatchEntries] : n \in 1..MaxPatch } :
      DistinctKeys(form) }

\* an error as an API reports it for a field, as in the tests of setErrors
ApiRequired(field) ==
  [RequiredError(field) EXCEPT !.instancePath = <<field>>, !.message = ""]

ApiErrors ==
  { ApiRequired("title"), ApiRequired("id"), RequiredError("description") }

\* the lists given to setErrors: no error object twice
ErrorLists ==
  { errors \in UNION { [1..n -> ApiErrors] : n \in 1..MaxErrors } :
      \A i, j \in DOMAIN errors : i # j => errors[i] # errors[j] }

\* the errors option at mount: absent, or a list naming a field of the form
MountErrors == {<<>>, <<ApiRequired("title")>>}

\* the errors option after a change: none, or a list of one record
OptionErrors == {<<>>} \cup { <<e>> : e \in ApiErrors }

\* the options a form is constructed with: debounced validation on or
\* off, and a Validator that returns or (with a throwing custom keyword)
\* throws
OptionChoices ==
  { [shouldDebounceAndValidate |-> TRUE, userDefinedMessages |-> {},
     keywordThrows |-> FALSE, conditional |-> FALSE],
    [shouldDebounceAndValidate |-> FALSE, userDefinedMessages |-> {},
     keywordThrows |-> FALSE, conditional |-> FALSE],
    [shouldDebounceAndValidate |-> FALSE, userDefinedMessages |-> {},
     keywordThrows |-> TRUE, conditional |-> FALSE] }

----------------------------------------------------------------------------
(* The state machine *)

\* the hook after its first render, before the effects of the mount
firstRender(initial, errors) ==
  [state |-> getInitial(initial), currentField |-> NoField,
   editCounter |-> 0, debouncedField |-> NoField, timers |-> {},
   rendered |-> [state |-> getInitial(initial), editCounter |-> 0],
   effects |-> {}, pending |-> 0, initialStateRef |-> getInitial(initial),
   shared |-> FALSE, status |-> "mounted", result |-> Void("init", errors)]

\* the state after the mount: the first render and the effect on the
\* errors option (the effect on debouncedField returns at once: it is null)
Init ==
  \E initial \in InitialChoices, chosen \in OptionChoices,
     errors \in MountErrors :
    /\ options = chosen
    /\ initialStateRef = getInitial(initial)
    /\ LET h == errorsOptionEffect(firstRender(initial, errors), errors)
       IN /\ state = h.state
          /\ currentField = h.currentField
          /\ editCounter = h.editCounter
          /\ debouncedField = h.debouncedField
          /\ timers = h.timers
          /\ rendered = h.rendered
          /\ effects = h.effects
          /\ pending = h.pending
          /\ shared = h.shared
          /\ status = h.status
          /\ result = h.result

Commit(h) ==
  /\ state' = h.state
  /\ currentField' = h.currentField
  /\ editCounter' = h.editCounter
  /\ debouncedField' = h.debouncedField
  /\ timers' = h.timers
  /\ rendered' = h.rendered
  /\ effects' = h.effects
  /\ pending' = h.pending
  /\ initialStateRef' = h.initialStateRef
  /\ shared' = h.shared
  /\ status' = h.status
  /\ result' = h.result
  /\ UNCHANGED options

Mounted == status = "mounted"

\* the operations, each followed at once by the render its update causes
Set(form) ==
  /\ Mounted /\ editCounter < MaxEdits
  /\ Commit(render(setFormState(Hook, form)))

Blur(fieldName) ==
  /\ Mounted
  /\ Commit(render(handleBlur(Hook, fieldName)))

Validate ==
  /\ Mounted
  /\ Commit(render(validateForm(Hook)))

Reset ==
  /\ Mounted
  /\ Commit(render(resetForm(Hook)))

SetErrors(errors) ==
  /\ Mounted
  /\ Commit(render(setErrors(Hook, errors)))

\* the debounce delay of a pending timer elapses
TimerFires ==
  /\ Mounted
  /\ \E timer \in timers :
       Commit(render([fireDebounce(Hook, timer) EXCEPT
                        !.result = Void("timer", <<>>)]))

\* the component re-renders with a new list as errors option
ErrorsOption(errors) ==
  /\ Mounted
  /\ Commit(errorsOptionEffect(
              rerun([Hook EXCEPT !.result = Void("errorsOption", errors)]),
              errors))

Next ==
  \/ \E form \in Patches : Set(form)
  \/ \E fieldName \in FieldNames : Blur(fieldName)
  \/ Validate
  \/ Reset
  \/ \E errors \in ErrorLists : SetErrors(errors)
  \/ \E errors \in OptionErrors : ErrorsOption(errors)
  \/ TimerFires

Spec == Init /\ [][Next]_vars

----------------------------------------------------------------------------
(* The React batch: operations called from one event handler update the    *)
(* queued state but keep the closure of the latest render (rendered);      *)
(* the render and its effects run once, when the batch ends.               *)

Batched(h) == Commit([h EXCEPT !.pending = pending + 1])

BatchOpen == Mounted /\ pending < MaxBatch

BatchedSet(form) ==
  /\ BatchOpen /\ editCounter < MaxEdits
  /\ Batched(setFormState(Hook, form))

BatchedValidate ==
  /\ BatchOpen /\ pending > 0
  /\ Batched(validateForm(Hook))

BatchedSetErrors(errors) ==
  /\ BatchOpen /\ pending > 0
  /\ Batched(setErrors(Hook, errors))

\* the batch ends: React renders and runs the effects
Render ==
  /\ Mounted /\ pending > 0
  /\ Commit(render(Hook))

NextBatched ==
  \/ pending = 0 /\ Next
  \/ \E form \in Patches : BatchedSet(form)
  \/ BatchedValidate
  \/ \E errors \in ErrorLists : BatchedSetErrors(errors)
  \/ Render

SpecBatched == Init /\ [][NextBatched]_vars

----------------------------------------------------------------------------
(* getErrors(ajvErrors, userDefinedMessages, logger, schema), the Error    *)
(* Resolver as a pure function: the initial states draw a list of          *)
(* ErrorObjects, and Resolve applies getErrors to it.                      *)

\* the ErrorObjects of the lists: the `if` errors of the clauses of the
\* schema (and of a clause it does not have), errors of a property, of a
\* nested property, and errors of `required`, whose instancePath is empty
ResolverErrors ==
  { IfError(n) : n \in 1..(Len(ResolverSchema.allOf) + 1) }
    \cup { ThenPropertyError(1, "location"),
           ThenPropertyError(1, "eventUrl"),
           [MinLengthError("location", 3) EXCEPT
              !.instancePath = <<"location", "street">>],
           MinLengthError("eventUrl", 2),
           EnumError("locationType", <<"hybrid", "onsite", "remote">>),
           RequiredError("locationType"),
           ThenRequiredError(1, "location") }

ResolverLists ==
  { errors \in UNION { [1..n -> ResolverErrors] : n \in 1..MaxErrors } :
      \A i, j \in DOMAIN errors : i # j => errors[i] # errors[j] }

InitResolver ==
  \E errors \in ResolverLists :
    /\ state = EmptyObject
    /\ initialStateRef = EmptyObject
    /\ currentField = NoField
    /\ editCounter = 0
    /\ debouncedField = NoField
    /\ timers = {}
    /\ rendered = [state |-> EmptyObject, editCounter |-> 0]
    /\ effects = {}
    /\ pending = 0
    /\ shared = FALSE
    /\ status = "mounted"
    /\ options = [shouldDebounceAndValidate |-> FALSE,
                  userDefinedMessages |-> {},
                  keywordThrows |-> FALSE, conditional |-> TRUE]
    /\ result = Returned("errors", errors, FALSE, FALSE, FALSE, NoData)

\* getErrors(ajvErrors, userDefinedMessages, logger, schema)
Resolve ==
  /\ result.op = "errors"
  /\ result' = Returned("getErrors", result.arg, FALSE, FALSE, TRUE,
                        getErrorsWithSchema(result.arg,
                          options.userDefinedMessages, ResolverSchema))
  /\ UNCHANGED <<state, initialStateRef, currentField, editCounter,
                 debouncedField, timers, rendered, effects, pending, shared,
                 status, options>>

NextResolver == Resolve

SpecResolver == InitResolver /\ [][NextResolver]_vars

----------------------------------------------------------------------------
(* The Dependency Analyzer, analyze(schema), as a pure function: the       *)
(* initial states draw the allOf list of a schema, and Analyze applies     *)
(* analyze to it.                                                          *)

\* a conditional clause as the analyzer reads it: whether it has an `if`,
\* the keys of if.properties, and then.required
AnalyzerClause(hasIf, ifKeys, required) ==
  [hasIf |-> hasIf, ifKeys |-> ifKeys, required |-> required]

AnalyzerClauses ==
  { AnalyzerClause(TRUE, <<c>>, required) :
      c \in {"locationType", "kind"},
      required \in {<<"location">>, <<"eventUrl">>,
                    <<"location", "eventUrl">>} }
    \cup { AnalyzerClause(FALSE, <<>>, <<"location">>),
           AnalyzerClause(TRUE, <<"locationType", "kind">>, <<"eventUrl">>) }

AnalyzerSchemas ==
  UNION { [1..n -> AnalyzerClauses] : n \in 1..MaxClauses }

\* an analyzer in which a later clause replaces the dependents of its
\* controlling field
RECURSIVE analyzeOverwritingFrom(_, _)
analyzeOverwritingFrom(allOf, n) ==
  IF n = 0 THEN EmptyObject
  ELSE
    LET map == analyzeOverwritingFrom(allOf, n - 1)
        clause == allOf[n]
    IN IF clause.hasIf /\ Len(clause.ifKeys) = 1
         THEN (clause.ifKeys[1] :> clause.required) @@ map
       ELSE map

analyzeOverwriting(allOf) == analyzeOverwritingFrom(allOf, Len(allOf))

\* the dependency map after the first n entries of allOf: a clause with
\* an `if` of exactly one controlling property appends its then.required
\* to that field's dependents; any other clause is skipped
RECURSIVE analyzeFrom(_, _)
analyzeFrom(allOf, n) ==
  IF n = 0 THEN EmptyObject
  ELSE
    LET map == analyzeFrom(allOf, n - 1)
        clause == allOf[n]
    IN IF clause.hasIf /\ Len(clause.ifKeys) = 1
         THEN (clause.ifKeys[1] :>
                 (IF clause.ifKeys[1] \in DOMAIN map
                    THEN map[clause.ifKeys[1]] ELSE <<>>)
                   \o clause.required)
              @@ map
       ELSE map

analyze(allOf) == analyzeFrom(allOf, Len(allOf))

InitAnalyzer ==
  \E allOf \in AnalyzerSchemas :
    /\ state = EmptyObject
    /\ initialStateRef = EmptyObject
    /\ currentField = NoField
    /\ editCounter = 0
    /\ debouncedField = NoField
    /\ timers = {}
    /\ rendered = [state |-> EmptyObject, editCounter |-> 0]
    /\ effects = {}
    /\ pending = 0
    /\ shared = FALSE
    /\ status = "mounted"
    /\ options = [shouldDebounceAndValidate |-> FALSE,
                  userDefinedMessages |-> {},
                  keywordThrows |-> FALSE, conditional |-> TRUE]
    /\ result = Returned("schema", allOf, FALSE, FALSE, FALSE, NoData)

Analyze ==
  /\ result.op = "schema"
  /\ result' = Returned("analyze", result.arg, FALSE, FALSE, TRUE,
                        analyze(result.arg))
  /\ UNCHANGED <<state, initialStateRef, currentField, editCounter,
                 debouncedField, timers, rendered, effects, pending, shared,
                 status, options>>

NextAnalyzer == Analyze

SpecAnalyzer == InitAnalyzer /\ [][NextAnalyzer]_vars

----------------------------------------------------------------------------
(* utils with isRequired: getInitial(initialState, schema) and             *)
(* getFormState(prevState, form, fieldDependencies, schema), the pure      *)
(* functions that keep {value, error, isRequired} per field for a schema   *)
(* with conditional (allOf / if / then) rules.                             *)

\* the dependency map given to getFormState
fieldDependencies == ("locationType" :> <<"location", "eventUrl">>)

\* getInitial with every field's isRequired false
getInitialNoneRequired(initialState, schema) ==
  [key \in DOMAIN initialState |->
     [value |-> initialState[key], error |-> "", isRequired |-> FALSE]]

\* getInitial of the utils that take the schema: isRequired is membership
\* in the schema's top-level required list
getInitialWithSchema(initialState, schema) ==
  [key \in DOMAIN initialState |->
     [value |-> initialState[key],
      error |-> "",
      isRequired |-> Includes(schema.required, key)]]

\* {...state[fieldName], value}
updateFieldValue(s, fieldName, value) ==
  (fieldName :>
     IF fieldName \in DOMAIN s THEN [s[fieldName] EXCEPT !.value = value]
     ELSE [value |-> value, error |-> Undefined, isRequired |-> Undefined])
  @@ s

\* evaluateFieldDependency without the comparison of the clause's const
\* with the parent's value
evaluateFieldDependencyAnyValue(fieldName, parentFieldName, parentValue, schema) ==
  \E i \in DOMAIN schema.allOf :
    LET condition == schema.allOf[i]
    IN /\ parentFieldName \in DOMAIN condition.if.properties
       /\ Includes(condition.then.required, fieldName)

evaluateFieldDependency(fieldName, parentFieldName, parentValue, schema) ==
  \E i \in DOMAIN schema.allOf :
    LET condition == schema.allOf[i]
    IN /\ parentFieldName \in DOMAIN condition.if.properties
       /\ condition.if.properties[parentFieldName].const = parentValue
       /\ Includes(condition.then.required, fieldName)

\* the reduce of updateDynamicRequiredFields over the first n related fields
RECURSIVE updateRelatedFields(_, _, _, _, _, _)
updateRelatedFields(s, relatedFields, n, parent, parentValue, schema) ==
  IF n = 0 THEN s
  ELSE
    LET updatedState == updateRelatedFields(s, relatedFields, n - 1,
                          parent, parentValue, schema)
        fieldName == relatedFields[n]
        isRequired == evaluateFieldDependency(fieldName, parent,
                                              parentValue, schema)
    IN (fieldName :>
          IF fieldName \in DOMAIN updatedState
            THEN [updatedState[fieldName] EXCEPT !.isRequired = isRequired]
          ELSE [value |-> Undefined, error |-> Undefined,
                isRequired |-> isRequired])
       @@ updatedState

updateDynamicRequiredFields(s, parent, parentValue, deps, schema) ==
  LET relatedFields == IF parent \in DOMAIN deps THEN deps[parent] ELSE <<>>
  IN updateRelatedFields(s, relatedFields, Len(relatedFields),
                         parent, parentValue, schema)

\* the reduce of getFormState over the first n keys of form
RECURSIVE getFormStateFrom(_, _, _, _, _)
getFormStateFrom(prevState, form, n, dependencies, schema) ==
  IF n = 0 THEN prevState
  ELSE
    LET updatedState == getFormStateFrom(prevState, form, n - 1,
                                         dependencies, schema)
        fieldName == form[n][1]
        value == getValue(form[n][2])
    IN updateDynamicRequiredFields(
         updateFieldValue(updatedState, fieldName, value),
         fieldName, value, dependencies, schema)

getFormState(prevState, form, dependencies, schema) ==
  getFormStateFrom(prevState, form, Len(form), dependencies, schema)

\* the initial values and the patches of the conditional form
ConditionalInitials ==
  { ("locationType" :> t @@ "location" :> "" @@ "eventUrl" :> u) :
      t \in {"onsite", "remote"}, u \in {"", Null} }

ConditionalEntries ==
  ({"locationType"} \X {"onsite", "remote", "hybrid", Null})
    \cup ({"location", "eventUrl"} \X Strings)

ConditionalPatches ==
  { form \in UNION { [1..n -> ConditionalEntries] : n \in 1..MaxPatch } :
      DistinctKeys(form) }

\* the hook constructed with userDefinedMessages, as in the tests: a
\* template for minLength, or one for required
OverrideChoices ==
  { [shouldDebounceAndValidate |-> FALSE, userDefinedMessages |-> {k},
     keywordThrows |-> FALSE, conditional |-> FALSE] :
      k \in {"minLength", "required"} }

InitOverrides ==
  \E initial \in InitialChoices, chosen \in OverrideChoices :
    /\ options = chosen
    /\ initialStateRef = getInitial(initial)
    /\ LET h == firstRender(initial, <<>>)
       IN /\ state = h.state
          /\ currentField = h.currentField
          /\ editCounter = h.editCounter
          /\ debouncedField = h.debouncedField
          /\ timers = h.timers
          /\ rendered = h.rendered
          /\ effects = h.effects
          /\ pending = h.pending
          /\ shared = h.shared
          /\ status = h.status
          /\ result = h.result

SpecOverrides == InitOverrides /\ [][Next]_vars

\* the hook constructed with initial values that lack a field the schema
\* requires: the form adds description later, or never
PartialInitials == { ("title" :> v) : v \in Strings }

InitPartial ==
  \E initial \in PartialInitials, chosen \in OptionChoices,
     errors \in MountErrors :
    /\ options = chosen
    /\ initialStateRef = getInitial(initial)
    /\ LET h == errorsOptionEffect(firstRender(initial, errors), errors)
       IN /\ state = h.state
          /\ currentField = h.currentField
          /\ editCounter = h.editCounter
          /\ debouncedField = h.debouncedField
          /\ timers = h.timers
          /\ rendered = h.rendered
          /\ effects = h.effects
          /\ pending = h.pending
          /\ shared = h.shared
          /\ status = h.status
          /\ result = h.result

SpecPartial == InitPartial /\ [][Next]_vars

\* the hook constructed with the conditional schema, as in the tests
ConditionalHookInitials ==
  { ("locationType" :> t @@ "location" :> "" @@ "eventUrl" :> "") :
      t \in {"onsite", ""} }

ConditionalHookEntries ==
  ({"locationType"} \X {"onsite", "remote", "hybrid", "invalidType"})
    \cup ({"location"} \X Strings)
    \cup ({"eventUrl"} \X {"", "https://example.com"})

ConditionalHookPatches ==
  { form \in UNION { [1..n -> ConditionalHookEntries] : n \in 1..MaxPatch } :
      DistinctKeys(form) }

InitConditional ==
  \E initial \in ConditionalHookInitials :
    /\ options = [shouldDebounceAndValidate |-> FALSE,
                  userDefinedMessages |-> {},
                  keywordThrows |-> FALSE, conditional |-> TRUE]
    /\ initialStateRef = getInitial(initial)
    /\ LET h == firstRender(initial, <<>>)
       IN /\ state = h.state
          /\ currentField = h.currentField
          /\ editCounter = h.editCounter
          /\ debouncedField = h.debouncedField
          /\ timers = h.timers
          /\ rendered = h.rendered
          /\ effects = h.effects
          /\ pending = h.pending
          /\ shared = h.shared
          /\ status = h.status
          /\ result = h.result

NextConditional ==
  \/ \E form \in ConditionalHookPatches : Set(form)
  \/ \E fieldName \in {"locationType", "location", "eventUrl"} :
       Blur(fieldName)
  \/ Validate
  \/ Reset
  \/ TimerFires

SpecConditional == InitConditional /\ [][NextConditional]_vars

\* the form state machine of the pure functions: the state is what
\* getInitial returns, and every set replaces it by what getFormState
\* returns for it
InitFormState ==
  \E initial \in ConditionalInitials :
    /\ state = getInitialWithSchema(initial, ConditionalSchema)
    /\ initialStateRef = getInitialWithSchema(initial, ConditionalSchema)
    /\ currentField = NoField
    /\ editCounter = 0
    /\ debouncedField = NoField
    /\ timers = {}
    /\ rendered = [state |-> getInitialWithSchema(initial, ConditionalSchema),
                   editCounter |-> 0]
    /\ effects = {}
    /\ pending = 0
    /\ shared = FALSE
    /\ status = "mounted"
    /\ options = [shouldDebounceAndValidate |-> FALSE,
                  userDefinedMessages |-> {},
                  keywordThrows |-> FALSE, conditional |-> TRUE]
    /\ result = Void("init", initial)

FormStateSet(form) ==
  /\ state' = getFormState(state, form, fieldDependencies, ConditionalSchema)
  /\ rendered' = [rendered EXCEPT !.state = state']
  /\ result' = Void("set", form)
  /\ UNCHANGED <<initialStateRef, currentField, editCounter, debouncedField,
                 timers, effects, pending, shared, status, options>>

NextFormState == \E form \in ConditionalPatches : FormStateSet(form)

SpecFormState == InitFormState /\ [][NextFormState]_vars

----------------------------------------------------------------------------
(* Properties *)

\* the resolution of what the Validator reports for the whole form
FormErrors ==
  getErrors(AJVValidate(dataOf(state)), options.userDefinedMessages)

ValidatorRejects == AJVValidate(dataOf(state)) # <<>>

AfterValidate == result.op = "validate"

\* C1: after a validate() that the Validator rejects, every field named in
\* the resolution carries its message, every other field has error '', and
\* the call returned {isValid: false, data: null}.
C1_FailedValidateOverwritesEveryError ==
  (AfterValidate /\ ValidatorRejects) =>
    /\ \A f \in DOMAIN state : state[f].error = ErrorOf(FormErrors, f)
    /\ ~result.isValid /\ ~result.hasData

C3_ConformingValuesValidate ==
  (AfterValidate /\ ~ValidatorRejects) =>
    /\ result.isValid /\ result.hasData
    /\ result.data = [f \in DOMAIN state |-> state[f].value]

\* C4: after reset() FormState is the InitialSnapshot: the same fields,
\* every value the initial one, every error ''.
C4_ResetRestoresInitialSnapshot ==
  result.op = "reset" =>
    /\ state = initialStateRef
    /\ DOMAIN state = {InitialFields[i] : i \in DOMAIN InitialFields}
    /\ \A f \in DOMAIN state : state[f].error = ""

\* a reset that follows two set calls, a stored error and a dirty form
C4_Witness ==
  /\ result.op = "reset"
  /\ editCounter = MaxEdits
  /\ state = initialStateRef
  /\ state["title"].value = Null

\* some field's value differs from its value in the InitialSnapshot
SomeValueDiffers ==
  \E f \in DOMAIN state :
    \/ f \notin DOMAIN initialStateRef
    \/ state[f].value # initialStateRef[f].value

\* C5: isDirty is true iff some field's current value differs from the
\* field's value in the InitialSnapshot.
C5_IsDirtyIffSomeValueDiffers ==
  isFormDirty(state, initialStateRef)
    = IF SomeValueDiffers THEN "true" ELSE "false"

\* the keys of a patch and the value it gives a key
PatchKeys(form) == {form[i][1] : i \in DOMAIN form}
PatchValue(form, f) == form[CHOOSE i \in DOMAIN form : form[i][1] = f][2]

\* what set(form) may change: the value of the fields of the patch
SetFrame(form) ==
  /\ DOMAIN state' = DOMAIN state \cup PatchKeys(form)
  /\ \A f \in PatchKeys(form) :
       /\ state'[f].value = getValue(PatchValue(form, f))
       /\ state'[f].error = IF f \in DOMAIN state THEN state[f].error ELSE ""
  /\ \A f \in DOMAIN state \ PatchKeys(form) : state'[f] = state[f]

\* C6: set(patch) writes the value of exactly the fields of the patch (null
\* as ''); a field outside the patch keeps value and error, and no field's
\* error is changed by the call (a field the patch adds starts with '').
C6_SetChangesOnlyPatchedValues ==
  [][result'.op = "set" => SetFrame(result'.arg)]_vars

\* a set of two fields, one of which carries an error that the set keeps
C6_Witness ==
  /\ result.op = "set" /\ Len(result.arg) > 1
  /\ "title" \in PatchKeys(result.arg)
  /\ state["title"].error # ""
  /\ state["title"].value = "Hello"

\* the message the Error Resolver gives field f when the Validator is
\* run on the single-key object {f: value}, or ''
FieldMessage(f, value) ==
  ErrorOf(getErrors(AJVValidate(f :> value), options.userDefinedMessages), f)

AfterBlur == result.op = "onBlur" /\ ~result.threw
BlurredField == result.arg[1]

\* C7 as claimed: after onBlur(f), f's error is the message resolved for f
\* from the Validator's run on {f: current value of f}, or ''.
C7_BlurWritesFieldMessage ==
  AfterBlur =>
    state[BlurredField].error
      = FieldMessage(BlurredField, state[BlurredField].value)

\* C7 as amended: after onBlur(f), f's error is '' while the form is not
\* dirty, and otherwise the message resolved for f from the Validator's run
\* on {f: current value of f}, or ''.
C7_BlurWritesFieldMessageWhenDirty ==
  AfterBlur =>
    state[BlurredField].error
      = IF isDirty
          THEN FieldMessage(BlurredField, state[BlurredField].value)
          ELSE ""

\* onBlur has written a message on a dirty form
C7_Witness ==
  /\ AfterBlur /\ BlurredField = "title" /\ isDirty
  /\ state["title"].value = ""
  /\ state["title"].error = "Should be at least 3 characters long."

\* C8: onBlur(f) leaves every field's value and the error of every field
\* other than f as they were.
C8_BlurChangesOnlyItsFieldsError ==
  [][(result'.op = "onBlur") =>
       /\ DOMAIN state' = DOMAIN state
       /\ \A g \in DOMAIN state :
            /\ state'[g].value = state[g].value
            /\ g # result'.arg[1] => state'[g].error = state[g].error]_vars

\* onBlur(title) on a dirty form whose description violates the schema and
\* is missing from the validated object: description's error stays ''
C8_Witness ==
  /\ AfterBlur /\ BlurredField = "title" /\ isDirty
  /\ state["title"].error # ""
  /\ state["description"].value = "" /\ state["description"].error = ""

\* C9: at most one debounce timer is pending; a set leaves exactly the
\* timer of its own current field (the first key of its patch, stamped with
\* the edit counter) pending; the timer that fires is the one of the last
\* set, it becomes the debounced field and no timer is pending after it.
C9_OneTimerForTheLastSet ==
  /\ [](Cardinality(timers) <= 1)
  /\ [][(result'.op = "set" /\ status' = "mounted") =>
          timers' = {[name |-> result'.arg[1][1], editId |-> editCounter]}
       ]_vars
  /\ [][(result'.op = "timer") =>
          /\ timers = {currentField}
          /\ debouncedField' = currentField
          /\ timers' = {}]_vars

\* a timer armed by the second set of a burst, for the first key of a patch
\* of two fields, has fired
C9_Witness ==
  /\ result.op = "timer" /\ timers = {}
  /\ debouncedField = currentField
  /\ currentField.editId = 1
  /\ options.shouldDebounceAndValidate

\* the value violates what the schema says of the field
Violates(f, value) ==
  /\ f \in DOMAIN Schema.properties
  /\ StrLen(CoerceString(value)) < Schema.properties[f].minLength

\* a timer fires with debounced validation enabled and a Validator that
\* returns, right after a set
FiresAfterSet ==
  /\ result.op = "set" /\ result'.op = "timer"
  /\ options.shouldDebounceAndValidate /\ ~AJVThrows

SetKeepsErrors ==
  result'.op = "set" =>
    \A f \in PatchKeys(result'.arg) \cap DOMAIN state :
      state'[f].error = state[f].error

\* C10 as claimed: a set leaves the error of a field it writes unchanged,
\* and when the timer fires after the set every field the set wrote a
\* violating value to has a non-empty error.
C10_DebouncedErrorAfterSet ==
  /\ [][SetKeepsErrors]_vars
  /\ [][FiresAfterSet =>
          \A f \in PatchKeys(result.arg) :
            Violates(f, state[f].value) => state'[f].error # ""]_vars

\* C10 as amended: a set leaves the error of a field it writes unchanged,
\* and when the timer fires after a set whose patch's first key f got a
\* violating value, f's error is non-empty if the form is dirty and ''
\* if it is not.
C10_DebouncedErrorAfterSetWhenDirty ==
  /\ [][SetKeepsErrors]_vars
  /\ [][FiresAfterSet =>
          LET f == result.arg[1][1]
          IN Violates(f, state[f].value) =>
               (state'[f].error # "" <=> isDirty)]_vars

\* the timer of a set has fired and left an error on the violating field
C10_Witness ==
  /\ result.op = "timer" /\ options.shouldDebounceAndValidate
  /\ debouncedField = currentField /\ debouncedField.name = "title"
  /\ Violates("title", state["title"].value)
  /\ isDirty
  /\ state["title"].error # ""

\* no field's error is changed by the step
ErrorsUnchanged ==
  \A f \in DOMAIN state : f \in DOMAIN state' /\ state'[f].error = state[f].error

\* C11: with shouldDebounceAndValidate false, no set and no timer firing
\* changes the error of any field.
C11_NoImplicitValidationWhenDisabled ==
  [][(~options.shouldDebounceAndValidate /\ result'.op \in {"set", "timer"})
       => ErrorsUnchanged]_vars

\* with the option false, a timer has fired on a dirty form whose title
\* violates the schema, and title has no error
C11_Witness ==
  /\ result.op = "timer" /\ ~options.shouldDebounceAndValidate
  /\ debouncedField.name = "title" /\ isDirty
  /\ Violates("title", state["title"].value)
  /\ state["title"].error = ""

\* a timer has fired with debounced validation enabled, and the render and
\* the effect after it completed
AfterEnabledFiring ==
  /\ result.op = "timer" /\ options.shouldDebounceAndValidate
  /\ status = "mounted"

C13_LaterSetStampsGreaterEditId ==
  [][result'.op = "set" => currentField'.editId > currentField.editId]_vars

\* what setErrors(E) may change: the error of the fields the Error Resolver
\* names for E
SetErrorsFrame(errors) ==
  LET resolved == getErrors(errors, options.userDefinedMessages)
  IN /\ DOMAIN state' = DOMAIN state
     /\ \A f \in DOMAIN state :
          /\ state'[f].value = state[f].value
          /\ state'[f].error = IF f \in DOMAIN resolved THEN resolved[f]
                               ELSE state[f].error

\* C14: after setErrors(E) every field the Error Resolver names for E has
\* the resolved message as error, and every other error and every value
\* is unchanged.
C14_SetErrorsMergesOnlyErrors ==
  [][(result'.op = "setErrors" /\ ~result'.threw)
       => SetErrorsFrame(result'.arg)]_vars

\* the values the form was constructed with
InitialValues == [f \in DOMAIN initialStateRef |-> initialStateRef[f].value]

\* C15: the errors option is merged into FormState at mount and at every
\* change of the option, and FormState is then what setErrors with the
\* same list makes of it.
C15_ErrorsOptionMergedLikeSetErrors ==
  /\ [](result.op = "init" =>
          state = setErrors(firstRender(InitialValues, result.arg),
                            result.arg).state)
  /\ [][result'.op = "errorsOption" =>
          state' = setErrors(Hook, result'.arg).state]_vars

\* an errors option that changed to a list naming title has written
\* title's message over a form that held an error on description
C15_Witness ==
  /\ result.op = "errorsOption" /\ Len(result.arg) > 0
  /\ status = "mounted"
  /\ editCounter > 0
  /\ state["title"].error = "title is required."
  /\ state["description"].error # ""

\* C16: no call of set, onBlur, validate, reset or setErrors throws to its
\* caller.
C16_NoOperationThrows ==
  result.op \in {"set", "onBlur", "validate", "reset", "setErrors"}
    => ~result.threw

\* C17: a validate() during which the Validator throws returns
\* {isValid: false, data: null} without throwing, and leaves FormState as
\* it was before the call.
C17_ValidateCatchesAndKeepsState ==
  [][(result'.op = "validate" /\ AJVThrows) =>
       /\ ~result'.threw /\ ~result'.isValid /\ ~result'.hasData
       /\ state' = state]_vars

\* a validate() whose Validator threw, on a dirty form that carries an
\* error written by setErrors
C17_Witness ==
  /\ result.op = "validate" /\ AJVThrows
  /\ ~result.threw /\ ~result.isValid /\ ~result.hasData
  /\ isDirty
  /\ state["title"].error = "title is required."

\* the fields a set has added to those of the initial snapshot
AddedFields == DOMAIN state \ DOMAIN initialStateRef

\* C18: a set adds the fields of its patch that the initial snapshot lacks
\* and later sets keep them; while FormState holds such a field the hook
\* still renders: isDirty, isValid and data are computed.
C18_AddedFieldKeptAndHookUsable ==
  /\ [][result'.op = "set" =>
          /\ PatchKeys(result'.arg) \subseteq DOMAIN state'
          /\ AddedFields \subseteq DOMAIN state']_vars
  /\ [](AddedFields # {} =>
          /\ status = "mounted"
          /\ isFormDirty(state, initialStateRef) # "throws")

\* C19: every field of the initial snapshot has an entry in FormState.
C19_InitialFieldsStayInFormState ==
  DOMAIN initialStateRef \subseteq DOMAIN state

\* setErrors has rewritten a FormState that holds an added field, after
\* MaxEdits sets
C19_Witness ==
  /\ result.op = "setErrors" /\ ~result.threw
  /\ editCounter = MaxEdits
  /\ AddedFields # {}
  /\ DOMAIN initialStateRef \subseteq DOMAIN state
  /\ state["title"].error # ""

\* the dependent fields of the dependency map
Dependents ==
  UNION { { fieldDependencies[c][i] : i \in DOMAIN fieldDependencies[c] } :
            c \in DOMAIN fieldDependencies }

\* some conditional rule whose if clause matches the current value of its
\* controlling field lists d in its then.required
RuleRequires(d) ==
  \E i \in DOMAIN ConditionalSchema.allOf :
    LET condition == ConditionalSchema.allOf[i]
    IN /\ \A c \in DOMAIN condition.if.properties :
            /\ c \in DOMAIN state
            /\ state[c].value = condition.if.properties[c].const
       /\ Includes(condition.then.required, d)

\* C20: in every state, the initial one included, a dependent field's
\* isRequired is true iff a conditional rule that matches the current
\* value of its controlling field lists it in then.required.
C20_IsRequiredIffMatchingRule ==
  \A d \in Dependents : state[d].isRequired <=> RuleRequires(d)

\* the dependents of controlling field c in the dependency map
DependentsOf(c) ==
  IF c \in DOMAIN fieldDependencies
    THEN { fieldDependencies[c][i] : i \in DOMAIN fieldDependencies[c] }
  ELSE {}

\* some allOf clause has if.properties.c.const equal to v and lists d in
\* then.required
ClauseRequires(c, v, d) ==
  \E i \in DOMAIN ConditionalSchema.allOf :
    LET condition == ConditionalSchema.allOf[i]
    IN /\ c \in DOMAIN condition.if.properties
       /\ condition.if.properties[c].const = v
       /\ Includes(condition.then.required, d)

\* what set(form) does to isRequired
IsRequiredFrame(form) ==
  /\ \A c \in PatchKeys(form) : \A d \in DependentsOf(c) :
       state'[d].isRequired <=> ClauseRequires(c, PatchValue(form, c), d)
  /\ \A f \in DOMAIN state :
       (\A c \in PatchKeys(form) : f \notin DependentsOf(c))
         => state'[f].isRequired = state[f].isRequired

\* C21: a set that patches controlling field c with value v makes every
\* dependent d of c required exactly when some allOf clause has
\* if.properties.c.const equal to v and lists d in then.required, and
\* leaves the isRequired of every field that is not a dependent of a
\* patched field unchanged.
C21_SetRecomputesDependentsOnly ==
  [][result'.op = "set" => IsRequiredFrame(result'.arg)]_vars

\* a set of locationType to 'hybrid' after which both dependents are
\* required, and the controlling field keeps its own isRequired
C21_Witness ==
  /\ result.op = "set"
  /\ "locationType" \in PatchKeys(result.arg)
  /\ PatchValue(result.arg, "locationType") = "hybrid"
  /\ state["location"].isRequired /\ state["eventUrl"].isRequired
  /\ state["locationType"].isRequired

\* C22: immediately after initialization the form state has exactly the
\* fields of the initial values, each with its supplied value, error ''
\* and isRequired true exactly when the field is in the schema's top-level
\* required list.
C22_InitialFormStateFromValuesAndRequired ==
  result.op = "init" =>
    /\ DOMAIN state = DOMAIN result.arg
    /\ \A f \in DOMAIN state :
         /\ state[f].value = result.arg[f]
         /\ state[f].error = ""
         /\ state[f].isRequired <=>
              (\E i \in DOMAIN ConditionalSchema.required :
                 ConditionalSchema.required[i] = f)

\* an initial state with a required field, a field that is not required
\* and a null value
C22_Witness ==
  /\ result.op = "init"
  /\ state["locationType"].isRequired
  /\ ~state["location"].isRequired
  /\ state["eventUrl"].value = Null

\* C23: no operation changes the initial snapshot, a set made after a
\* reset (when the form state is the snapshot object) included: it keeps
\* the initial values, with empty errors.
C23_InitialSnapshotNeverChanges ==
  [][/\ initialStateRef' = initialStateRef
     /\ \A f \in DOMAIN initialStateRef' : initialStateRef'[f].error = ""]_vars

\* a reset made after a set: the form state is now the snapshot object
C23_Witness ==
  /\ result.op = "reset"
  /\ shared
  /\ currentField.name = "title"
  /\ editCounter > 0
  /\ state = initialStateRef

\* C24: while the hook is mounted, the isValid accessor is true iff every
\* field's stored error is ''; it is read off the stored errors, whatever
\* the Validator would say about the current values.
C24_IsValidIffNoStoredError ==
  Mounted => (isValid <=> \A f \in DOMAIN state : state[f].error = "")

\* after a set, isValid is true although the Validator rejects the values
C24_Witness ==
  /\ Mounted /\ result.op = "set"
  /\ isValid
  /\ ~AJVThrows /\ ValidatorRejects

\* C25: a validate() called right after a validate() returns the same
\* {isValid, data} as the first and leaves the form state as the first
\* call left it.
C25_ValidateTwiceSameResultAndState ==
  [][(result.op = "validate" /\ result'.op = "validate") =>
       /\ result'.isValid = result.isValid
       /\ result'.hasData = result.hasData
       /\ result'.data = result.data
       /\ state' = state]_vars

\* the state a failed validate() left, with its messages stored, in which
\* a second validate() returns the same and changes nothing
C25_Witness ==
  /\ Mounted /\ result.op = "validate" /\ ~result.isValid
  /\ ~AJVThrows /\ ValidatorRejects
  /\ \E f \in DOMAIN state : state[f].error # ""
  /\ render(validateForm(Hook)).state = state
  /\ render(validateForm(Hook)).result = result

\* the fields the conditional clauses constrain
ConstrainedFields ==
  UNION { { ConditionalSchema.allOf[i].then.required[k] :
              k \in DOMAIN ConditionalSchema.allOf[i].then.required } :
            i \in DOMAIN ConditionalSchema.allOf }

\* some clause whose if matches the current controlling value constrains
\* d, and d's current value breaks that constraint
MatchingClauseBroken(d) ==
  \E i \in DOMAIN ConditionalSchema.allOf :
    LET clause == ConditionalSchema.allOf[i]
    IN /\ \A c \in DOMAIN clause.if.properties :
            getValue(state[c].value) = clause.if.properties[c].const
       /\ Includes(clause.then.required, d)
       /\ BreaksThenProperty(d, getValue(state[d].value))

\* C26: after validate() on the conditional form, a dependent field has a
\* non-empty error only if a clause that matches the current controlling
\* value constrains it and its value breaks the constraint; a field that
\* only non-matching clauses constrain has error '', also when set changed
\* the controlling value since an earlier validate().
C26_OnlyMatchingClausesLeaveErrors ==
  (options.conditional /\ AfterValidate) =>
    \A d \in ConstrainedFields :
      state[d].error # "" => MatchingClauseBroken(d)

\* the resolution getErrors returned, and the list it was given
Resolved == result.op = "getErrors"
Resolution == result.data
GivenErrors == result.arg

IsDirect(error) == error.instancePath # <<>>

\* an error of the keyword `if` of an allOf clause, without instancePath
IsConditionalIf(error) ==
  /\ error.instancePath = <<>>
  /\ IfMatchesAt(error.schemaPath) # {}

\* the field the rule of the schema gives an `if` error of allOf[n]: the
\* first entry of then.required, else the first declared key of
\* then.properties, else none
ClaimedField(error) ==
  LET n == ParseIndex(error.schemaPath[2]) + 1
  IN IF n > Len(ResolverSchema.allOf) THEN Null
     ELSE IF ~ResolverSchema.allOf[n].hasThen THEN Null
     ELSE IF Len(ResolverSchema.allOf[n].then.required) > 0
       THEN ResolverSchema.allOf[n].then.required[1]
     ELSE IF Len(ResolverSchema.allOf[n].then.propertyKeys) > 0
       THEN ResolverSchema.allOf[n].then.propertyKeys[1]
     ELSE Null

\* C27: when a list holds a direct violation of a field and an `if` error
\* that resolves to the same field, the field's message is that of the
\* direct violation, in whichever order the two come.
C27_DirectViolationWinsOverIf ==
  Resolved =>
    \A i, j \in DOMAIN GivenErrors :
      (/\ IsDirect(GivenErrors[i])
       /\ IsConditionalIf(GivenErrors[j])
       /\ ClaimedField(GivenErrors[j])
            = getFieldName(GivenErrors[i].instancePath)
       /\ \A k \in DOMAIN GivenErrors :
            (/\ IsDirect(GivenErrors[k])
             /\ GivenErrors[k].instancePath = GivenErrors[i].instancePath)
              => k = i)
        => Resolution[getFieldName(GivenErrors[i].instancePath)]
             = getErrorMessage(GivenErrors[i], {})

\* the `if` error of the first clause comes before the direct violation
\* of location, and location carries the direct violation's message
C27_Witness ==
  /\ Resolved
  /\ GivenErrors = <<IfError(1), ThenPropertyError(1, "location")>>
  /\ Resolution = ("location" :> "This field is required.")

\* C28: an `if` error of allOf[n] without instancePath resolves to the
\* first entry of allOf[n].then.required when that list is not empty,
\* otherwise to the first declared key of allOf[n].then.properties,
\* otherwise to no field, and then it contributes no message.
C28_IfErrorResolvedThroughThen ==
  Resolved =>
    \A i \in DOMAIN GivenErrors :
      IsConditionalIf(GivenErrors[i]) =>
        /\ ClaimedField(GivenErrors[i]) # Null
             => ClaimedField(GivenErrors[i]) \in DOMAIN Resolution
        /\ Len(GivenErrors) = 1 =>
             Resolution =
               IF ClaimedField(GivenErrors[i]) = Null THEN EmptyObject
               ELSE (ClaimedField(GivenErrors[i]) :>
                       getErrorMessage(GivenErrors[i], {}))

\* the `if` error of the clause whose then.required is empty resolves to
\* the first declared key of then.properties
C28_Witness ==
  /\ Resolved
  /\ GivenErrors = <<IfError(2)>>
  /\ Resolution = ("eventUrl" :> "must match \"then\" schema")

\* C29: the field of an error with a non-empty instancePath is the first
\* segment of the path ('a' for '/a/b').
C29_FieldIsFirstPathSegment ==
  Resolved =>
    \A i \in DOMAIN GivenErrors :
      IsDirect(GivenErrors[i]) =>
        GivenErrors[i].instancePath[1] \in DOMAIN Resolution

\* the keywords of a SchemaViolation
SchemaViolationKeywords ==
  {"required", "minLength", "maxLength", "pattern", "minimum", "maximum",
   "enum", "type", "format"}

\* C30: every schema violation of the list yields a message on a field
\* of the resolution, whatever its instancePath; none is dropped.
C30_EverySchemaViolationGetsAField ==
  Resolved =>
    \A i \in DOMAIN GivenErrors :
      GivenErrors[i].keyword \in SchemaViolationKeywords =>
        \/ /\ IsDirect(GivenErrors[i])
           /\ getFieldName(GivenErrors[i].instancePath)
                \in DOMAIN Resolution
        \/ \E f \in DOMAIN Resolution :
             Resolution[f] = getErrorMessage(GivenErrors[i], {})

\* the messages the default templates render in this model for keyword k
DefaultMessagesOf(k) ==
  IF k = "minLength"
    THEN { defaultAJVMessages(k, [NoParams EXCEPT !.limit = n]) :
             n \in {1, 3} }
  ELSE { defaultAJVMessages(k, [NoParams EXCEPT !.missingProperty = f]) :
           f \in FieldNames }

Overridden == options.userDefinedMessages

\* C31: in a form constructed with a template for a keyword, an error of
\* that keyword is rendered by the caller's template, by onBlur, validate
\* and setErrors alike: no field ever carries the default message of an
\* overridden keyword, a failed validate() leaves the caller's message on
\* every field that breaks an overridden minLength, setErrors leaves it
\* on every field an overridden required error names, and the other
\* keywords keep their default message.
C31_CallerTemplateReplacesDefault ==
  /\ \A f \in DOMAIN state :
       state[f].error \in
         {"", UserMessage}
           \cup UNION { DefaultMessagesOf(k) :
                          k \in {"minLength", "required"} \ Overridden }
  /\ (AfterValidate /\ "minLength" \in Overridden) =>
       \A f \in DOMAIN state \cap DOMAIN Schema.properties :
         StrLen(getValue(state[f].value)) < Schema.properties[f].minLength
           => state[f].error = UserMessage
  /\ (result.op = "setErrors" /\ ~result.threw
        /\ "required" \in Overridden) =>
       \A i \in DOMAIN result.arg :
         (/\ result.arg[i].instancePath # <<>>
          /\ result.arg[i].keyword = "required")
           => state[getFieldName(result.arg[i].instancePath)].error
                = UserMessage

\* an onBlur that left the caller's message for minLength on title
C31_Witness ==
  /\ AfterBlur /\ BlurredField = "title"
  /\ "minLength" \in Overridden
  /\ state["title"].error = UserMessage

\* C32: without a template for minLength, a minLength violation renders
\* 'This field is required.' when its limit is 1 and 'Should be at least
\* n characters long.' for any other limit n.
C32_MinLengthOneRendersRequired ==
  (Resolved /\ "minLength" \notin Overridden) =>
    \A i \in DOMAIN GivenErrors :
      (/\ GivenErrors[i].keyword = "minLength"
       /\ \A k \in DOMAIN GivenErrors :
            GivenErrors[k].instancePath = GivenErrors[i].instancePath
              => k = i)
        => Resolution[getFieldName(GivenErrors[i].instancePath)]
             = IF GivenErrors[i].params.limit = 1
                 THEN "This field is required."
               ELSE "Should be at least "
                      \o ToString(GivenErrors[i].params.limit)
                      \o " characters long."

\* a resolution with both renderings: limit 1 and limit 2
C32_Witness ==
  /\ Resolved
  /\ GivenErrors = <<ThenPropertyError(1, "location"),
                     MinLengthError("eventUrl", 2)>>
  /\ Resolution["location"] = "This field is required."
  /\ Resolution["eventUrl"] = "Should be at least 2 characters long."

\* the clause has an `if` whose one controlling property is c
NamesField(clause, c) == clause.hasIf /\ clause.ifKeys = <<c>>

\* the then.required lists of the clauses of allOf that name c, from the
\* first clause on, one after the other
RECURSIVE RequiredOf(_, _)
RequiredOf(allOf, c) ==
  IF allOf = <<>> THEN <<>>
  ELSE (IF NamesField(Head(allOf), c) THEN Head(allOf).required ELSE <<>>)
         \o RequiredOf(Tail(allOf), c)

\* C33: analyze maps each controlling field to the concatenation, in
\* allOf order, of the then.required lists of the clauses whose `if`
\* names that field; it has no entry for another field, and clauses for
\* the same controlling field accumulate their dependents.
C33_AnalyzeAccumulatesDependents ==
  result.op = "analyze" =>
    /\ DOMAIN result.data =
         { c \in {"locationType", "kind"} :
             \E i \in DOMAIN result.arg : NamesField(result.arg[i], c) }
    /\ \A c \in DOMAIN result.data :
         result.data[c] = RequiredOf(result.arg, c)

\* two clauses for locationType: their dependents accumulate
C33_Witness ==
  /\ result.op = "analyze"
  /\ result.arg = << AnalyzerClause(TRUE, <<"locationType">>, <<"location">>),
                     AnalyzerClause(TRUE, <<"locationType">>, <<"eventUrl">>) >>
  /\ result.data = ("locationType" :> <<"location", "eventUrl">>)

\* a debounce timer has fired and its effect has validated its field
AfterTimerValidation ==
  /\ Mounted /\ result.op = "timer"
  /\ options.shouldDebounceAndValidate
  /\ debouncedField.name \in DOMAIN state

\* C34: while isDirty is false, onBlur(f) and the validation of f by a
\* debounce timer that fires leave f's error '', whatever the Validator
\* reports for f.
C34_NotDirtyFieldValidationWritesEmpty ==
  ~isDirty =>
    /\ (Mounted /\ AfterBlur) => state[BlurredField].error = ""
    /\ AfterTimerValidation => state[debouncedField.name].error = ""

\* a timer armed by a set fires after a reset: the form is not dirty, the
\* Validator rejects the field's value, and the field's error is ''
C34_Witness ==
  /\ AfterTimerValidation /\ ~isDirty
  /\ FieldMessage(debouncedField.name, state[debouncedField.name].value) # ""
  /\ state[debouncedField.name].error = ""

\* C35: when a debounce timer fires right after a reset(), every field's
\* value is its initial value and every field's error is '' afterwards.
C35_TimerAfterResetKeepsInitialState ==
  [][(result.op = "reset" /\ result'.op = "timer") =>
       /\ DOMAIN state' = DOMAIN initialStateRef
       /\ \A f \in DOMAIN state' :
            /\ state'[f].value = initialStateRef[f].value
            /\ state'[f].error = ""]_vars

\* the timer of a set of title has fired and validated title, whose
\* value is the initial null again: only a reset between the set and the
\* firing restores it
C35_Witness ==
  /\ AfterTimerValidation /\ debouncedField.name = "title"
  /\ initialStateRef["title"].value = Null
  /\ state = initialStateRef
  /\ FieldMessage("title", Null) # ""

\* the error onBlur(f) would write to f in this state
BlurWrites(f) == render(handleBlur(Hook, f)).state[f].error

\* the message full validation resolves for f in this state, or ''
ValidateReports(f) ==
  ErrorOf(getErrors(AJVValidate(dataOf(rendered.state)),
                    options.userDefinedMessages), f)

\* C36: in every reachable state of the conditional form, an error that
\* onBlur(f) writes to a dependent field f is the error validate()
\* reports for f in the same state: onBlur never reports a violation of a
\* conditional branch that full validation does not report.
C36_BlurReportsWhatValidateReports ==
  (options.conditional /\ Mounted) =>
    \A f \in ConstrainedFields :
      BlurWrites(f) # "" => BlurWrites(f) = ValidateReports(f)

\* C37: when setErrors(E) or validate() is called right after set(p),
\* before or after the render the set causes, every field named in p
\* still holds its patched value afterwards.
C37_SetSurvivesSetErrorsAndValidate ==
  [][(/\ result.op = "set"
      /\ result'.op \in {"setErrors", "validate"}
      /\ ~result'.threw) =>
       \A f \in PatchKeys(result.arg) :
         /\ f \in DOMAIN state'
         /\ state'[f].value = getValue(PatchValue(result.arg, f))]_vars

\* the step is set({f: initial value of f}) right after a set({f: v})
SetsBackToInitial(f) ==
  /\ result.op = "set" /\ PatchKeys(result.arg) = {f}
  /\ result'.op = "set" /\ PatchKeys(result'.arg) = {f}
  /\ f \in DOMAIN initialStateRef
  /\ PatchValue(result'.arg, f) = initialStateRef[f].value

\* C38: set({f: v}) followed by set({f: initial value of f}) leaves f's
\* value equal to its value in the initial snapshot, and isDirty false
\* when no other field differs from its initial value, for every initial
\* value, null included.
C38_SetBackToInitialIsNotDirty ==
  [][\A f \in FieldNames :
       SetsBackToInitial(f) =>
         /\ state'[f].value = initialStateRef[f].value
         /\ (\A g \in DOMAIN state \ {f} :
               state[g].value = initialStateRef[g].value)
              => isFormDirty(rendered'.state, initialStateRef) = "false"]_vars

\* C39: a debounce timer that fires is the one of the latest set: it
\* validates that set's current field only, and the error of every other
\* field, the current field of an earlier set included, stays as it was.
C39_TimerValidatesOnlyLatestCurrentField ==
  [][result'.op = "timer" =>
       /\ debouncedField' = currentField
       /\ \A f \in DOMAIN state \ {currentField.name} :
            /\ f \in DOMAIN state'
            /\ state'[f].error = state[f].error]_vars

\* the timer of the second set has fired for description; title, written
\* before, is rejected by the Validator on a dirty form and has no error:
\* no timer validated it
C39_Witness ==
  /\ AfterTimerValidation /\ isDirty
  /\ debouncedField = [name |-> "description", editId |-> 1]
  /\ state["title"].value # initialStateRef["title"].value
  /\ FieldMessage("title", state["title"].value) # ""
  /\ state["title"].error = ""

\* C40: after a validate() that returned isValid: false because the
\* Validator rejected the data, some field has a non-empty error, and so
\* the isValid accessor is false.
C40_RejectedValidateLeavesAnError ==
  (Mounted /\ AfterValidate /\ ~result.isValid
     /\ ~AJVThrows /\ ValidatorRejects) =>
    /\ \E f \in DOMAIN state : state[f].error # ""
    /\ ~isValid

====
